---- MODULE Spec2Model ----
(***************************************************************************)
(* The admission decision core of kubesec-webhook: one validating engine   *)
(* per workload kind.  Each engine type-checks the inbound object, stamps  *)
(* and serializes it, hands the document to the kubesec scan client,       *)
(* validates the answer, pretty-prints it and compares the score with the  *)
(* configured minimum.  Every engine is the same pipeline; the engines     *)
(* differ in the table entries below.                                      *)
(***************************************************************************)
EXTENDS Integers, Sequences, FiniteSets, TLC

VARIABLES
    flags,      \* Flags, as parsed from the command line
    minScore,   \* validator.minScore of every engine, set at construction
    path,       \* per call: the HTTP path the request arrived on
    pc,         \* per call: the position inside Validate
    engine,     \* per call: the engine whose Validate was invoked
    received,   \* per call: the object as the caller handed it over
    obj,        \* per call: the inbound object (Validate holds a pointer to it)
    writerBuf,  \* per call: bytes held by the bufio.Writer
    buffer,     \* per call: bytes in the bytes.Buffer behind the writer
    out,        \* per call: outcome of Encode, Flush and MarshalIndent
    scanCalls,  \* per call: number of ScanDefinition invocations
    sent,       \* per call: the document handed to ScanDefinition
    scanErr,    \* per call: the error ScanDefinition returned
    result,     \* per call: the results ScanDefinition returned
    jq,         \* per call: the pretty-printed result
    log,        \* per call: the records handed to the logger
    stages,     \* per call: the stages of Validate that ran, in order
    ret         \* per call: what Validate returned

vars == <<flags, minScore, path, pc, engine, received, obj, writerBuf, buffer, out,
          scanCalls, sent, scanErr, result, jq, log, stages, ret>>

(***************************************************************************)
(* Bounds of the model.                                                    *)
(***************************************************************************)
MaxScore == 1
MaxMinScore == 1
MaxResults == 2

Scores == (0 - MaxScore)..MaxScore
MinScores == (0 - MaxMinScore)..MaxMinScore

Calls == {"c1", "c2"}

(***************************************************************************)
(* The engines.                                                            *)
(***************************************************************************)
PodValidator ==
    [objType |-> "v1.Pod", kind |-> "Pod", apiVersion |-> "v1",
     word |-> "pod", infix |-> "", header |-> "Scan Result:\n",
     logsInvalid |-> FALSE, checksFlush |-> TRUE, listResult |-> TRUE,
     timeout |-> TRUE]

DaemonSetsValidator ==
    [objType |-> "appsv1.DaemonSet", kind |-> "DaemonSet",
     apiVersion |-> "apps/v1",
     word |-> "daemonset", infix |-> "daemonset ",
     header |-> "Scan Result:\n",
     logsInvalid |-> TRUE, checksFlush |-> TRUE, listResult |-> TRUE,
     timeout |-> TRUE]

DeploymentValidator ==
    [objType |-> "appsv1.Deployment", kind |-> "Deployment",
     apiVersion |-> "apps/v1",
     word |-> "deployment", infix |-> "deployment ",
     header |-> "Scan Result:\n",
     logsInvalid |-> FALSE, checksFlush |-> TRUE, listResult |-> TRUE,
     timeout |-> TRUE]

\* pkg/webhook/deployment.go: the validator written against kubewebhook v1
\* and the first kubesec client.
LegacyDeploymentValidator ==
    [objType |-> "extensionsv1beta1.Deployment", kind |-> "Deployment",
     apiVersion |-> "apps/v1",
     word |-> "deployment", infix |-> "deployment ",
     header |-> "Scan Result:\n",
     logsInvalid |-> FALSE, checksFlush |-> FALSE, listResult |-> FALSE,
     timeout |-> FALSE]

\* The StatefulSet validator behind NewStatefulSetWebhook, which Main.Run
\* calls: the engine contract of the specification, with its message format.
StatefulSetValidator ==
    [objType |-> "appsv1.StatefulSet", kind |-> "StatefulSet",
     apiVersion |-> "apps/v1",
     word |-> "statefulset", infix |-> "", header |-> "",
     logsInvalid |-> FALSE, checksFlush |-> TRUE, listResult |-> TRUE,
     timeout |-> TRUE]

Engines == {"Pod", "Deployment", "DaemonSet", "StatefulSet", "LegacyDeployment"}

Validator(e) ==
    CASE e = "Pod" -> PodValidator
      [] e = "Deployment" -> DeploymentValidator
      [] e = "DaemonSet" -> DaemonSetsValidator
      [] e = "StatefulSet" -> StatefulSetValidator
      [] e = "LegacyDeployment" -> LegacyDeploymentValidator

ObjTypes == {Validator(e).objType : e \in Engines}

\* The paths Main.Run binds on the webhook server.
Paths == {"/pod", "/deployment", "/daemonset", "/statefulset"}

HandlerCopyPaste(p) ==
    CASE p = "/pod" -> "Pod"
      [] p = "/deployment" -> "Deployment"
      [] p = "/daemonset" -> "Deployment"
      [] p = "/statefulset" -> "StatefulSet"

\* mux.Handle(path, handler): the engine behind the handler of each path.
Handler(p) ==
    CASE p = "/pod" -> "Pod"
      [] p = "/deployment" -> "Deployment"
      [] p = "/daemonset" -> "DaemonSet"
      [] p = "/statefulset" -> "StatefulSet"

\* The webhook of pkg/webhook/deployment.go is not bound by Main.Run; a
\* request reaches it through a handler of its own.
LegacyPath == "legacy:/deployment"

Route(p) == IF p = LegacyPath THEN "LegacyDeployment" ELSE Handler(p)

NewValidatorDefaultsDaemonSet(e, min) == IF e = "DaemonSet" THEN 0 ELSE min

\* val := &validator{minScore: minScore, ...}
NewValidator(e, min) == min

\* The group/version/kind an object of Go type t carries when the API
\* server populated its TypeMeta.
OwnKind(t) ==
    CASE t = "v1.Pod" -> "Pod"
      [] t = "appsv1.Deployment" -> "Deployment"
      [] t = "appsv1.DaemonSet" -> "DaemonSet"
      [] t = "appsv1.StatefulSet" -> "StatefulSet"
      [] t = "extensionsv1beta1.Deployment" -> "Deployment"

OwnAPIVersion(t) ==
    CASE t = "v1.Pod" -> "v1"
      [] t = "extensionsv1beta1.Deployment" -> "extensions/v1beta1"
      [] OTHER -> "apps/v1"

(***************************************************************************)
(* Text.                                                                   *)
(***************************************************************************)
Digit(d) ==
    CASE d = 0 -> "0" [] d = 1 -> "1" [] d = 2 -> "2" [] d = 3 -> "3"
      [] d = 4 -> "4" [] d = 5 -> "5" [] d = 6 -> "6" [] d = 7 -> "7"
      [] d = 8 -> "8" [] d = 9 -> "9"

RECURSIVE NatToString(_)
NatToString(n) ==
    IF n < 10 THEN Digit(n) ELSE NatToString(n \div 10) \o Digit(n % 10)

\* fmt's %d verb.
FormatInt(n) == IF n < 0 THEN "-" \o NatToString(0 - n) ELSE NatToString(n)

Contains(s, sub) ==
    \E i \in 1..(Len(s) - Len(sub) + 1) : SubSeq(s, i, i + Len(sub) - 1) = sub

\* serializer.Encode: the YAML document of the object.  kind and apiVersion
\* are omitted when empty.
EncodeYAML(o) ==
    (IF o.apiVersion = "" THEN "" ELSE "apiVersion: " \o o.apiVersion \o "\n")
    \o (IF o.kind = "" THEN "" ELSE "kind: " \o o.kind \o "\n")
    \o "metadata:\n  name: " \o o.name \o "\n"

ResultJSON(r, indent) ==
    indent \o "{\n"
    \o indent \o "  \"error\": \"" \o r.error \o "\",\n"
    \o indent \o "  \"score\": " \o FormatInt(r.score) \o "\n"
    \o indent \o "}"

\* json.MarshalIndent(result, "", "  "): a list for the v2 client, a single
\* object for the first client.
MarshalIndent(rs, listResult) ==
    IF listResult
    THEN "[\n" \o ResultJSON(rs[1], "  ") \o "\n]"
    ELSE ResultJSON(rs[1], "")

DenyMessageNoName(v, name, score, min, pretty) ==
    " score is " \o FormatInt(score) \o ", " \o v.infix
    \o "minimum accepted score is " \o FormatInt(min) \o "\n"
    \o v.header \o pretty

DenyMessageSwapped(v, name, score, min, pretty) ==
    name \o " score is " \o FormatInt(min) \o ", " \o v.infix
    \o "minimum accepted score is " \o FormatInt(score) \o "\n"
    \o v.header \o pretty

\* fmt.Sprintf of the denial message.
DenyMessage(v, name, score, min, pretty) ==
    name \o " score is " \o FormatInt(score) \o ", " \o v.infix
    \o "minimum accepted score is " \o FormatInt(min) \o "\n"
    \o v.header \o pretty

BelowOrEqual(score, min) == score <= min

\* result[0].Score < d.minScore
Below(score, min) == score < min

TypeMatchesAny(o, v) == TRUE

\* obj.(*T)
TypeMatches(o, v) == o.type = v.objType

WrongCountOnlyEmpty(v, rs) == v.listResult /\ Len(rs) = 0

\* len(result) != 1; the first client returns a single result, not a list.
WrongCount(v, rs) == v.listResult /\ Len(rs) # 1

LocalJqShared(c) == jq["c1"]

\* The local variable jq of the call.
LocalJq(c) == jq[c]

(***************************************************************************)
(* Values.                                                                 *)
(***************************************************************************)
NoObj == [type |-> "", name |-> "", kind |-> "", apiVersion |-> ""]
NoOut == [encode |-> "", flush |-> "", print |-> ""]
NoRet == [returned |-> FALSE, stop |-> FALSE, valid |-> FALSE,
          message |-> "", err |-> ""]

Allow == [returned |-> TRUE, stop |-> FALSE, valid |-> TRUE,
          message |-> "", err |-> "nil"]

Deny(v, msg) ==
    [returned |-> TRUE, stop |-> ~v.listResult, valid |-> FALSE,
     message |-> msg, err |-> "nil"]

\* The return statement of each branch of Validate.
InvalidObjectResult == Allow

SerializationFailedResultPropagates ==
    [Allow EXCEPT !.err = "serialization failed"]

SerializationFailedResult == Allow

FlushFailedResult == Allow

ScanFailedResultDeny ==
    [returned |-> TRUE, stop |-> FALSE, valid |-> FALSE,
     message |-> "kubesec.io scan failed", err |-> "nil"]

ScanFailedResult == Allow

ResultCountResult == Allow

ResultErrorResult == Allow

PrettyPrintFailedResult == Allow

AcceptedResult == Allow

Record(level, msg) == [level |-> level, msg |-> msg]

Results(D) == [error : D.errors, score : D.scores]

\* What the scorer may answer: a transport error, or a list of results.
Responses(D, v) ==
    {[err |-> "transport", results |-> <<>>]}
    \cup {[err |-> "", results |-> [i \in 1..k |-> r]] :
            r \in Results(D),
            k \in IF v.listResult THEN 1..D.maxResults ELSE {1}}
    \cup IF v.listResult THEN {[err |-> "", results |-> <<>>]} ELSE {}

FullDomain ==
    [paths |-> Paths \cup {LegacyPath}, objTypes |-> ObjTypes, names |-> {"web", "db"},
     metas |-> {"empty", "own"}, errors |-> {"", "boom"}, scores |-> Scores,
     maxResults |-> MaxResults]

SmallDomain ==
    [paths |-> Paths \cup {LegacyPath}, objTypes |-> ObjTypes, names |-> {"web"},
     metas |-> {"empty"}, errors |-> {"", "boom"},
     scores |-> {0 - MaxScore, MaxScore}, maxResults |-> 1]

(***************************************************************************)
(* Initial state: the engines are constructed with the min-score flag and  *)
(* no call is in flight.                                                   *)
(***************************************************************************)
Init ==
    /\ \E m \in MinScores : flags = [MinScore |-> m]
    /\ minScore = [e \in Engines |-> NewValidator(e, flags.MinScore)]
    /\ path = [c \in Calls |-> ""]
    /\ pc = [c \in Calls |-> "idle"]
    /\ engine = [c \in Calls |-> "Pod"]
    /\ received = [c \in Calls |-> NoObj]
    /\ obj = [c \in Calls |-> NoObj]
    /\ writerBuf = [c \in Calls |-> ""]
    /\ buffer = [c \in Calls |-> ""]
    /\ out = [c \in Calls |-> NoOut]
    /\ scanCalls = [c \in Calls |-> 0]
    /\ sent = [c \in Calls |-> ""]
    /\ scanErr = [c \in Calls |-> ""]
    /\ result = [c \in Calls |-> <<>>]
    /\ jq = [c \in Calls |-> ""]
    /\ log = [c \in Calls |-> <<>>]
    /\ stages = [c \in Calls |-> <<>>]
    /\ ret = [c \in Calls |-> NoRet]

(***************************************************************************)
(* Validate, one action per step.  c is the call, D the sets the inputs    *)
(* of the environment are drawn from.                                      *)
(***************************************************************************)
Return(c, r, records, stage) ==
    /\ ret' = [ret EXCEPT ![c] = r]
    /\ log' = [log EXCEPT ![c] = @ \o records]
    /\ stages' = [stages EXCEPT ![c] = Append(@, stage)]
    /\ pc' = [pc EXCEPT ![c] = "done"]

Goto(c, next, records, stage) ==
    /\ pc' = [pc EXCEPT ![c] = next]
    /\ log' = [log EXCEPT ![c] = @ \o records]
    /\ stages' = [stages EXCEPT ![c] = Append(@, stage)]
    /\ UNCHANGED ret

\* The protocol adapter decoded an admission review that arrived on path p
\* and invokes Validate of the engine behind p with the embedded object.
Receive(c, D) ==
    /\ pc[c] = "idle"
    /\ \E p \in D.paths, t \in D.objTypes, n \in D.names, m \in D.metas :
         LET o == [type |-> t, name |-> n,
                   kind |-> IF m = "own" THEN OwnKind(t) ELSE "",
                   apiVersion |-> IF m = "own" THEN OwnAPIVersion(t) ELSE ""]
         IN /\ path' = [path EXCEPT ![c] = p]
            /\ engine' = [engine EXCEPT ![c] = Route(p)]
            /\ obj' = [obj EXCEPT ![c] = o]
            /\ received' = [received EXCEPT ![c] = o]
    /\ pc' = [pc EXCEPT ![c] = "typecheck"]
    /\ UNCHANGED <<flags, minScore, writerBuf, buffer, out, scanCalls, sent, scanErr,
                   result, jq, log, stages, ret>>

\* kObj, ok := obj.(*T); if !ok { return Valid: true }
TypeCheck(c) ==
    LET v == Validator(engine[c]) IN
    /\ pc[c] = "typecheck"
    /\ IF TypeMatches(obj[c], v)
       THEN Goto(c, "stamp", <<>>, "typecheck")
       ELSE Return(c, InvalidObjectResult,
                   IF v.logsInvalid
                   THEN <<Record("error", "received invalid object")>>
                   ELSE <<>>,
                   "typecheck")
    /\ UNCHANGED <<flags, minScore, path, engine, received, obj, writerBuf, buffer, out,
                   scanCalls, sent, scanErr, result, jq>>

\* kObj.TypeMeta = metav1.TypeMeta{Kind: ..., APIVersion: ...}: kObj is the
\* pointer the caller passed, so the assignment writes into the caller's
\* object.
StampTypeMetaSkipped(o, v) == o

StampTypeMeta(o, v) == [o EXCEPT !.kind = v.kind, !.apiVersion = v.apiVersion]

Stamp(c) ==
    LET v == Validator(engine[c]) IN
    /\ pc[c] = "stamp"
    /\ obj' = [obj EXCEPT ![c] = StampTypeMeta(@, v)]
    /\ Goto(c, "encode", <<>>, "stamp")
    /\ UNCHANGED <<flags, minScore, path, engine, received, writerBuf, buffer, out,
                   scanCalls, sent, scanErr, result, jq>>

\* err := serializer.Encode(kObj, writer)
Encode(c) ==
    LET v == Validator(engine[c]) IN
    /\ pc[c] = "encode"
    /\ \E ok \in BOOLEAN :
         IF ok
         THEN /\ writerBuf' = [writerBuf EXCEPT ![c] = EncodeYAML(obj[c])]
              /\ out' = [out EXCEPT ![c].encode = "ok"]
              /\ Goto(c, "flush", <<>>, "encode")
         ELSE /\ out' = [out EXCEPT ![c].encode = "failed"]
              /\ Return(c, SerializationFailedResult,
                        <<Record("error", v.word \o " serialization failed")>>,
                        "encode")
              /\ UNCHANGED writerBuf
    /\ UNCHANGED <<flags, minScore, path, engine, received, obj, buffer, scanCalls, sent,
                   scanErr, result, jq>>

\* writer.Flush(); the first deployment validator drops its error.
Flush(c) ==
    LET v == Validator(engine[c]) IN
    /\ pc[c] = "flush"
    /\ \E ok \in BOOLEAN :
         IF ok
         THEN /\ buffer' = [buffer EXCEPT ![c] = writerBuf[c]]
              /\ writerBuf' = [writerBuf EXCEPT ![c] = ""]
              /\ out' = [out EXCEPT ![c].flush = "ok"]
              /\ Goto(c, "scan", <<>>, "flush")
         ELSE /\ out' = [out EXCEPT ![c].flush = "failed"]
              /\ UNCHANGED <<buffer, writerBuf>>
              /\ IF v.checksFlush
                 THEN Return(c, FlushFailedResult,
                             <<Record("error", "failed to flush buffer")>>,
                             "flush")
                 ELSE Goto(c, "scan", <<>>, "flush")
    /\ UNCHANGED <<flags, minScore, path, engine, received, obj, scanCalls, sent, scanErr,
                   result, jq>>

\* logger.Infof("Scanning ..."); NewClient(...).ScanDefinition(buffer): the
\* request leaves and the call blocks.
CallScan(c) ==
    LET v == Validator(engine[c]) IN
    /\ pc[c] = "scan"
    /\ sent' = [sent EXCEPT ![c] = buffer[c]]
    /\ scanCalls' = [scanCalls EXCEPT ![c] = @ + 1]
    /\ Goto(c, "scanning",
            <<Record("info", "Scanning " \o v.word \o " " \o obj[c].name)>>,
            "scan")
    /\ UNCHANGED <<flags, minScore, path, engine, received, obj, writerBuf, buffer, out,
                   scanErr, result, jq>>

\* The scorer answers: ScanDefinition returns a transport error or results.
ScanReturn(c, D) ==
    /\ pc[c] = "scanning"
    /\ \E r \in Responses(D, Validator(engine[c])) :
         /\ scanErr' = [scanErr EXCEPT ![c] = r.err]
         /\ result' = [result EXCEPT ![c] = r.results]
    /\ pc' = [pc EXCEPT ![c] = "returned"]
    /\ UNCHANGED <<flags, minScore, path, engine, received, obj, writerBuf, buffer, out,
                   scanCalls, sent, jq, log, stages, ret>>

\* The client's timeout expires: ScanDefinition returns an error.  Only a
\* client built with a timeout has one.
ScanTimeout(c) ==
    /\ pc[c] = "scanning"
    /\ Validator(engine[c]).timeout
    /\ scanErr' = [scanErr EXCEPT ![c] = "timeout"]
    /\ result' = [result EXCEPT ![c] = <<>>]
    /\ pc' = [pc EXCEPT ![c] = "returned"]
    /\ UNCHANGED <<flags, minScore, path, engine, received, obj, writerBuf, buffer, out,
                   scanCalls, sent, jq, log, stages, ret>>

\* if err != nil ...; if len(result) != 1 ...; if result[0].Error != "" ...
CheckResponse(c) ==
    LET v == Validator(engine[c]) IN
    /\ pc[c] = "returned"
    /\ IF scanErr[c] # ""
       THEN Return(c, ScanFailedResult,
                   <<Record("error", "kubesec.io scan failed")>>, "check")
       ELSE IF WrongCount(v, result[c])
       THEN Return(c, ResultCountResult,
                   <<Record("error", v.word \o " scan failed as result is empty")>>,
                   "check")
       ELSE IF result[c][1].error # ""
       THEN Return(c, ResultErrorResult,
                   <<Record("error", "kubesec.io scan failed")>>, "check")
       ELSE Goto(c, "print", <<>>, "check")
    /\ UNCHANGED <<flags, minScore, path, engine, received, obj, writerBuf, buffer, out,
                   scanCalls, sent, scanErr, result, jq>>

\* jq, err := json.MarshalIndent(result, "", "  ")
PrettyPrint(c) ==
    LET v == Validator(engine[c]) IN
    /\ pc[c] = "print"
    /\ \E ok \in BOOLEAN :
         IF ok
         THEN /\ jq' = [jq EXCEPT ![c] = MarshalIndent(result[c], v.listResult)]
              /\ out' = [out EXCEPT ![c].print = "ok"]
              /\ Goto(c, "compare", <<Record("info", "Scan Result")>>, "print")
         ELSE /\ out' = [out EXCEPT ![c].print = "failed"]
              /\ UNCHANGED jq
              /\ Return(c, PrettyPrintFailedResult,
                        <<Record("error", "kubesec.io pretty printing issue")>>,
                        "print")
    /\ UNCHANGED <<flags, minScore, path, engine, received, obj, writerBuf, buffer,
                   scanCalls, sent, scanErr, result>>

\* if result[0].Score < d.minScore { return Valid: false, Message: ... }
Compare(c) ==
    LET v == Validator(engine[c])
        score == result[c][1].score
        min == minScore[engine[c]]
    IN
    /\ pc[c] = "compare"
    /\ IF Below(score, min)
       THEN Return(c, Deny(v, DenyMessage(v, obj[c].name, score, min,
                                          LocalJq(c))),
                   <<>>, "compare")
       ELSE Return(c, AcceptedResult, <<>>, "compare")
    /\ UNCHANGED <<flags, minScore, path, engine, received, obj, writerBuf, buffer, out,
                   scanCalls, sent, scanErr, result, jq>>

\* The adapter writes the admission response; nothing of the call is kept.
Respond(c) ==
    /\ pc[c] = "done"
    /\ pc' = [pc EXCEPT ![c] = "idle"]
    /\ engine' = [engine EXCEPT ![c] = "Pod"]
    /\ received' = [received EXCEPT ![c] = NoObj]
    /\ obj' = [obj EXCEPT ![c] = NoObj]
    /\ writerBuf' = [writerBuf EXCEPT ![c] = ""]
    /\ buffer' = [buffer EXCEPT ![c] = ""]
    /\ out' = [out EXCEPT ![c] = NoOut]
    /\ scanCalls' = [scanCalls EXCEPT ![c] = 0]
    /\ sent' = [sent EXCEPT ![c] = ""]
    /\ scanErr' = [scanErr EXCEPT ![c] = ""]
    /\ result' = [result EXCEPT ![c] = <<>>]
    /\ jq' = [jq EXCEPT ![c] = ""]
    /\ log' = [log EXCEPT ![c] = <<>>]
    /\ stages' = [stages EXCEPT ![c] = <<>>]
    /\ ret' = [ret EXCEPT ![c] = NoRet]
    /\ path' = [path EXCEPT ![c] = ""]
    /\ UNCHANGED <<flags, minScore>>

\* The steps of Validate itself, without the scorer's answer.
Advance(c) ==
    \/ TypeCheck(c)
    \/ Stamp(c)
    \/ Encode(c)
    \/ Flush(c)
    \/ CallScan(c)
    \/ CheckResponse(c)
    \/ PrettyPrint(c)
    \/ Compare(c)
    \/ Respond(c)

Step(c, D) ==
    \/ Receive(c, D)
    \/ Advance(c)
    \/ ScanReturn(c, D)
    \/ ScanTimeout(c)

\* One request at a time.
Next == Step("c1", FullDomain)

Spec == Init /\ [][Next]_vars

\* One worker per inbound request, interleaved in any order.
ConcNext == \E c \in Calls : Step(c, SmallDomain)

ConcSpec == Init /\ [][ConcNext]_vars

\* Go schedules every runnable goroutine and the client's timer fires; the
\* scorer is not obliged to answer and the control plane not to send.
Fairness == WF_vars(Advance("c1")) /\ WF_vars(ScanTimeout("c1"))

FairSpec == Spec /\ Fairness

(***************************************************************************)
(* What a finished call shows about itself.                                *)
(***************************************************************************)
Done(c) == pc[c] = "done"

Min(c) == minScore[engine[c]]

Normalized(c) == out[c].encode = "ok" /\ out[c].flush = "ok"

\* ScanDefinition was invoked and returned without a transport error.
Answered(c) == scanCalls[c] = 1 /\ pc[c] \notin {"scan", "scanning"} /\ scanErr[c] = ""

\* Exactly one result, with an empty error field.
OneCleanResult(c) ==
    Answered(c) /\ Len(result[c]) = 1 /\ result[c][1].error = ""

Score(c) == result[c][1].score

(***************************************************************************)
(* C1: for every kind and every minimum score, when normalization          *)
(* succeeded and the scorer returned exactly one error-free result whose   *)
(* score is at least the minimum (the minimum itself included), Validate   *)
(* returns allowed = true.                                                 *)
(***************************************************************************)
C1_AcceptedAtOrAboveMinimum ==
    \A c \in Calls :
        (Done(c) /\ Normalized(c) /\ OneCleanResult(c) /\ Score(c) >= Min(c))
            => ret[c].returned /\ ret[c].valid

C1_Witness ==
    /\ Done("c1") /\ engine["c1"] = "DaemonSet" /\ Normalized("c1")
    /\ OneCleanResult("c1") /\ Score("c1") = Min("c1")
    /\ out["c1"].print = "ok" /\ ret["c1"].valid

DeniedWithExplanation(c) ==
    /\ ret[c].returned /\ ~ret[c].valid
    /\ Contains(ret[c].message, received[c].name)
    /\ Contains(ret[c].message, FormatInt(Score(c)))
    /\ Contains(ret[c].message, FormatInt(Min(c)))

(***************************************************************************)
(* C2: for every kind and every minimum score, when the scorer returned    *)
(* exactly one error-free result with a score below the minimum, Validate  *)
(* returns allowed = false with a message that contains the resource name, *)
(* the observed score and the configured minimum.                          *)
(***************************************************************************)
C2_Original ==
    \A c \in Calls :
        (Done(c) /\ OneCleanResult(c) /\ Score(c) < Min(c))
            => DeniedWithExplanation(c)

\* C2, amended: when the scorer returned exactly one error-free result with
\* a score below the minimum and pretty-printing of the result succeeded,
\* Validate returns allowed = false with a message that contains the
\* resource name, the observed score and the configured minimum.
C2_DeniedBelowMinimum ==
    \A c \in Calls :
        (Done(c) /\ OneCleanResult(c) /\ Score(c) < Min(c)
                 /\ out[c].print = "ok")
            => DeniedWithExplanation(c)

C2_Witness ==
    /\ Done("c1") /\ engine["c1"] = "Pod" /\ OneCleanResult("c1")
    /\ Score("c1") < Min("c1") /\ out["c1"].print = "ok"
    /\ ~ret["c1"].valid
    /\ Contains(ret["c1"].message, "db score is -1, minimum accepted score is 0")

(***************************************************************************)
(* C3: for every kind and every minimum score, when ScanDefinition returns *)
(* a transport error, a timeout included, the verdict is allowed = true.   *)
(***************************************************************************)
C3_TransportErrorAllows ==
    \A c \in Calls :
        (Done(c) /\ scanCalls[c] = 1 /\ scanErr[c] # "")
            => ret[c].returned /\ ret[c].valid

C3_Witness ==
    /\ Done("c1") /\ scanCalls["c1"] = 1 /\ scanErr["c1"] = "timeout"
    /\ ret["c1"].valid

Malformed(c) ==
    Answered(c) /\ (Len(result[c]) # 1 \/ result[c][1].error # "")

(***************************************************************************)
(* C4: for every kind, a malformed scorer response (zero results, more     *)
(* than one result, or one result with a non-empty error field) yields     *)
(* allowed = true, also when a score in the response is below the minimum. *)
(***************************************************************************)
C4_MalformedResponseAllows ==
    \A c \in Calls :
        (Done(c) /\ Malformed(c)) => ret[c].returned /\ ret[c].valid

C4_Witness ==
    /\ Done("c1") /\ Answered("c1") /\ Len(result["c1"]) = 2
    /\ result["c1"][1].error = "" /\ result["c1"][1].score < Min("c1")
    /\ ret["c1"].valid

Mismatched(c) ==
    pc[c] # "idle" /\ received[c].type # Validator(engine[c]).objType

(***************************************************************************)
(* C5: for every engine and every inbound object of another type, Validate *)
(* returns allowed = true and ScanDefinition is never invoked in the call. *)
(***************************************************************************)
C5_KindMismatchAllowsWithoutScan ==
    \A c \in Calls :
        Mismatched(c) =>
            /\ scanCalls[c] = 0
            /\ pc[c] \in {"typecheck", "done"}
            /\ Done(c) => ret[c].returned /\ ret[c].valid

C5_Witness ==
    /\ Done("c1") /\ engine["c1"] = "Pod"
    /\ received["c1"].type = "appsv1.Deployment"
    /\ ret["c1"].valid /\ scanCalls["c1"] = 0

PolicyFailure(c) ==
    /\ ~Mismatched(c) /\ Normalized(c) /\ OneCleanResult(c)
    /\ out[c].print = "ok" /\ Score(c) < Min(c)

(***************************************************************************)
(* C6: in every admission call the verdict is allowed = false if and only  *)
(* if the object matched the engine's kind, Encode and Flush succeeded,    *)
(* the scorer returned exactly one result with an empty error field,       *)
(* pretty-printing succeeded and the score is below the minimum.           *)
(***************************************************************************)
C6_DenyOnlyOnPolicyFailure ==
    \A c \in Calls :
        Done(c) => /\ ret[c].returned
                   /\ ~ret[c].valid <=> PolicyFailure(c)

(***************************************************************************)
(* C7: on every path of Validate the returned error value is nil and a     *)
(* verdict is returned.                                                    *)
(***************************************************************************)
C7_NoErrorPropagates ==
    \A c \in Calls :
        /\ Done(c) => ret[c].returned /\ ret[c].err = "nil"
        /\ ret[c].returned => Done(c)

C7_Witness ==
    /\ Done("c1") /\ out["c1"].encode = "failed"
    /\ ret["c1"].returned /\ ret["c1"].err = "nil" /\ ret["c1"].valid

Denied(c) == Done(c) /\ ret[c].returned /\ ~ret[c].valid

KindWord(e) ==
    CASE e \in {"Deployment", "LegacyDeployment"} -> "deployment "
      [] e = "DaemonSet" -> "daemonset "
      [] OTHER -> ""

ResultHeader(e) == IF e = "StatefulSet" THEN "" ELSE "Scan Result:\n"

C9_EveryCallGetsAVerdict == (pc["c1"] = "typecheck") ~> Done("c1")

\* Validate run from start to end on one request: the object, the outcome of
\* its own Encode, Flush and MarshalIndent, and the scorer's answer to it.
ValidateAlone(e, o, oc, serr, rs, m) ==
    LET v == Validator(e) IN
    IF o.type # v.objType THEN Allow
    ELSE IF oc.encode = "failed" THEN Allow
    ELSE IF oc.flush = "failed" /\ v.checksFlush THEN Allow
    ELSE IF serr # "" THEN Allow
    ELSE IF v.listResult /\ Len(rs) # 1 THEN Allow
    ELSE IF rs[1].error # "" THEN Allow
    ELSE IF oc.print = "failed" THEN Allow
    ELSE IF rs[1].score < m
    THEN Deny(v, DenyMessage(v, o.name, rs[1].score, m,
                             MarshalIndent(rs, v.listResult)))
    ELSE Allow

VerdictAsAlone ==
    \A c \in Calls :
        Done(c) => ret[c] = ValidateAlone(engine[c], received[c], out[c],
                                          scanErr[c], result[c], Min(c))

(***************************************************************************)
(* C10: under any interleaving of in-flight calls no shared state is       *)
(* written, minScore keeps the value set at construction, and each call's  *)
(* verdict is the one the same request gets when handled alone.            *)
(***************************************************************************)
C10_ConcurrentCallsIndependent ==
    /\ [][minScore' = minScore]_vars
    /\ []VerdictAsAlone

C10_Witness ==
    /\ Done("c1") /\ Done("c2") /\ engine["c1"] = engine["c2"]
    /\ received["c1"] = received["c2"]
    /\ ret["c1"].valid /\ ~ret["c2"].valid

\* The kind each path of the server stands for.
PathKind(p) ==
    CASE p = "/pod" -> "Pod"
      [] p = "/deployment" -> "Deployment"
      [] p = "/daemonset" -> "DaemonSet"
      [] p = "/statefulset" -> "StatefulSet"

(***************************************************************************)
(* C11: the server binds one handler per supported kind, each to a path of *)
(* its own; a request on the path of kind K is decided by the engine of    *)
(* kind K and by no other; and the four engines are constructed with the   *)
(* same minimum score, the value of the min-score flag.                    *)
(***************************************************************************)
C11_DispatchByKind ==
    /\ \A p, q \in Paths : p # q => Handler(p) # Handler(q)
    /\ \A p \in Paths :
         /\ Handler(p) = PathKind(p)
         /\ Validator(Handler(p)).kind = PathKind(p)
         /\ minScore[Handler(p)] = flags.MinScore
    /\ \A c \in Calls :
         path[c] \in Paths =>
            /\ engine[c] = PathKind(path[c])
            /\ Done(c) =>
                 ret[c] = ValidateAlone(PathKind(path[c]), received[c], out[c],
                                        scanErr[c], result[c], flags.MinScore)

C11_Witness ==
    /\ Done("c1") /\ path["c1"] = "/daemonset" /\ engine["c1"] = "DaemonSet"
    /\ received["c1"].type = "appsv1.DaemonSet"
    /\ flags.MinScore = 1 /\ minScore["DaemonSet"] = 1 /\ minScore["Pod"] = 1
    /\ ~ret["c1"].valid
    /\ Contains(ret["c1"].message, "daemonset minimum accepted score is 1")

\* Stage s of Validate ran in call c.
Ran(c, s) == \E i \in DOMAIN stages[c] : stages[c][i] = s

\* The inbound object of call c as the caller sees it now, against what the
\* caller passed in.
SameButTypeMeta(o, r) == o.type = r.type /\ o.name = r.name

(***************************************************************************)
(* C12, as stated: for every Validate call on every engine, the inbound    *)
(* object after the call is equal, field for field (kind and API version   *)
(* included), to the object before the call.                               *)
(***************************************************************************)
C12_Original == \A c \in Calls : Done(c) => obj[c] = received[c]

(***************************************************************************)
(* C12, amended: a Validate call changes nothing of the inbound object     *)
(* but its TypeMeta.  When the type assertion fails the object is left     *)
(* as it came; when it succeeds the object's kind and API version are      *)
(* overwritten in place with the engine's own, whatever they were.         *)
(***************************************************************************)
C12_InboundChangedOnlyInTypeMeta ==
    \A c \in Calls :
       pc[c] # "idle" =>
          /\ SameButTypeMeta(obj[c], received[c])
          /\ IF Ran(c, "stamp")
             THEN /\ obj[c].kind = Validator(engine[c]).kind
                  /\ obj[c].apiVersion = Validator(engine[c]).apiVersion
             ELSE obj[c] = received[c]

C12_Witness ==
    /\ Done("c1") /\ engine["c1"] = "Pod" /\ Ran("c1", "stamp")
    /\ received["c1"].kind = "" /\ received["c1"].apiVersion = ""
    /\ obj["c1"].kind = "Pod" /\ obj["c1"].apiVersion = "v1"
    /\ obj["c1"].name = received["c1"].name

\* The records call c emitted so far, by kind.
ErrorRecords(c) == {i \in DOMAIN log[c] : log[c][i].level = "error"}

ScanningRecords(c) ==
    {i \in DOMAIN log[c] :
        /\ log[c][i].level = "info"
        /\ Len(log[c][i].msg) >= 9
        /\ SubSeq(log[c][i].msg, 1, 9) = "Scanning "}

\* Call c went through one of the branches that allow without a verdict on
\* the score.
FailOpenBranch(c) ==
    \/ out[c].encode = "failed"
    \/ out[c].flush = "failed"
    \/ scanCalls[c] = 1 /\ pc[c] \notin {"scan", "scanning"} /\ scanErr[c] # ""
    \/ Malformed(c)
    \/ out[c].print = "failed"

(***************************************************************************)
(* C13: in every admission call, each fail-open branch (serialization      *)
(* failure, flush failure, scan transport error, wrong result count,       *)
(* embedded result error, pretty-print failure) emits an error-level       *)
(* record before the allow verdict is returned; an informational           *)
(* "Scanning" record is emitted exactly when normalization succeeded, and  *)
(* before the scorer is invoked; a call that ends with a computed verdict  *)
(* emits no error-level record.                                            *)
(***************************************************************************)
C13_ObservabilityRecords ==
    \A c \in Calls :
       /\ scanCalls[c] > 0 => ScanningRecords(c) # {}
       /\ Done(c) =>
            /\ FailOpenBranch(c) =>
                  /\ ret[c] = Allow
                  /\ log[c] # <<>>
                  /\ log[c][Len(log[c])].level = "error"
            /\ Cardinality(ScanningRecords(c)) = (IF Normalized(c) THEN 1 ELSE 0)
            /\ Ran(c, "compare") => ErrorRecords(c) = {}

\* Stage a ran before every run of stage b in call c.
RanBefore(c, a, b) ==
    \A j \in DOMAIN stages[c] :
       stages[c][j] = b => \E i \in 1..(j - 1) : stages[c][i] = a

\* The document d carries kind k and API version a.
Carries(d, k, a) ==
    /\ Contains(d, "kind: " \o k \o "\n")
    /\ Contains(d, "apiVersion: " \o a \o "\n")

(***************************************************************************)
(* C14: for every engine of kind K and every inbound object of that type,  *)
(* whatever kind and API version the inbound object carries (none          *)
(* included), the stamp happens before Encode, and the document handed to  *)
(* the scorer carries kind K and the API version of the engine's object    *)
(* type (Pod: v1; Deployment, DaemonSet, StatefulSet: apps/v1).            *)
(***************************************************************************)
C14_StampedBeforeSerializing ==
    \A c \in Calls :
       LET t == Validator(engine[c]).objType IN
       /\ RanBefore(c, "stamp", "encode")
       /\ scanCalls[c] > 0 => Carries(sent[c], OwnKind(t), OwnAPIVersion(t))

\* The stages of Validate in the order of the code.
StageOrder ==
    <<"typecheck", "stamp", "encode", "flush", "scan", "check", "print",
      "compare">>

IsPrefix(s, t) == Len(s) <= Len(t) /\ s = SubSeq(t, 1, Len(s))

(***************************************************************************)
(* C15: within one admission call the stages run strictly in the order     *)
(* type-check, normalize, score, validate-response, pretty-print,          *)
(* compare; a stage runs only if every earlier stage succeeded; the        *)
(* scorer is invoked at most once per call and never after a type-check    *)
(* or normalization failure; the score is compared against the minimum     *)
(* only after the result count and the embedded error field were checked.  *)
(***************************************************************************)
C15_StageOrdering ==
    \A c \in Calls :
       /\ IsPrefix(stages[c], StageOrder)
       /\ Ran(c, "stamp") => ~Mismatched(c)
       /\ Ran(c, "flush") => out[c].encode = "ok"
       /\ Ran(c, "scan") => Normalized(c)
       /\ scanCalls[c] <= 1
       /\ scanCalls[c] = 1 => ~Mismatched(c) /\ Normalized(c)
       /\ Ran(c, "print") => OneCleanResult(c)
       /\ Ran(c, "compare") =>
             /\ RanBefore(c, "check", "compare")
             /\ OneCleanResult(c) /\ out[c].print = "ok"

====
